---------------------------- MODULE Spec2Model ----------------------------
(***************************************************************************)
(* ManagerBase (app/managers/base.py): the generic CRUD manager over an    *)
(* SQLAlchemy AsyncSession.                                                *)
(*                                                                         *)
(* The manager's coroutines are modelled statement by statement.  A        *)
(* coroutine runs without interruption up to an `await` on the session     *)
(* (execute, commit, refresh, delete); the awaited operation completes in  *)
(* a later step, so calls made on different sessions interleave at exactly *)
(* those points.  A session handle serves one call at a time.              *)
(*                                                                         *)
(* The session is the unit of work of SQLAlchemy: add/delete/attribute     *)
(* changes are pending until commit, a commit flushes the whole unit of    *)
(* work atomically, a failed commit rolls it back, refresh reloads an      *)
(* instance from its committed row.                                        *)
(*                                                                         *)
(* A dict (field map, keyword arguments) is a record over all keys in      *)
(* which an absent key holds NoArg (0 for the integer key "id"); Items     *)
(* gives the keys that are present.  Optional[model] is a sequence of      *)
(* length at most one: None is << >>.                                      *)
(***************************************************************************)
EXTENDS Integers, Sequences, FiniteSets, TLC

\* Total number of manager calls issued in a behaviour.
MaxCalls == 4

Sessions == {"s1", "s2"}
Names == {"a", "b"}

NoArg == "<absent>"
None == "None"

\* The mapped columns of the entity (its declared fields).
Columns == {"id", "name"}
\* Attributes every declarative class has without their being columns.
ClassAttrs == {"metadata"}
\* The class attribute `metadata` as every instance sees it by default.
MetaData == "MetaData()"

Models == {"ModelA", "ModelB"}

NoObj == [state |-> "none", id |-> 0, name |-> NoArg, meta |-> NoArg]

\* ---------------------------------------------------------------- dicts

\* dict.items(): the keys present in the mapping.
Items(d) == {k \in DOMAIN d : IF k = "id" THEN d[k] # 0 ELSE d[k] # NoArg}

NoData == [name |-> NoArg, metadata |-> NoArg, bogus |-> NoArg]
NoKw == [id |-> 0, name |-> NoArg, bogus |-> NoArg]

\* The field maps a caller passes to create / update.
FieldMaps ==
    {d \in [name : Names \cup {NoArg}, metadata : {NoArg, "v"}, bogus : {NoArg, "v"}] :
        d.metadata = NoArg \/ d.bogus = NoArg}
\* The keyword criteria a caller passes to get / filter.
Criteria(maxid) ==
    [id : 0..maxid, name : Names \cup {NoArg}, bogus : {NoArg}] \cup {[NoKw EXCEPT !.bogus = "v"]}

\* ------------------------------------------------------- entity attributes

\* hasattr(self.model, key): true of every attribute of the class, column or
\* not; hasattr(None, key) is false of all the keys in play.
hasattr(model, key) == model # None /\ key \in Columns \cup ClassAttrs

\* setattr(obj, key, value)
setattr(obj, key, value) ==
    CASE key = "name" -> [obj EXCEPT !.name = value]
      [] key = "id" -> [obj EXCEPT !.id = value]
      [] key = "metadata" -> [obj EXCEPT !.meta = value]
      [] OTHER -> obj

\* getattr(obj, key) of a row or an instance, for a column.
getattr(obj, key) == obj[key]


\* ------------------------------------------------------------ the manager

\* `assert cond`: raises unless cond holds; python -O strips the statement.
assert(cond, optimize) == optimize \/ cond

\* __init__: the definition bound to the instance (the class attribute
\* `model` unless one is passed) and whether the assert lets it through.
init(passed, default, optimize) ==
    LET model == IF passed # None THEN passed ELSE default
    IN  [model |-> model,
         err |-> IF assert(model # None, optimize) THEN "" ELSE "AssertionError"]

\* self.model(**data): the declarative constructor takes the keys the class
\* has as attributes and raises TypeError for any other; calling None raises
\* TypeError as well.
RECURSIVE construct(_, _, _, _)
construct(model, obj, data, keys) ==
    IF model = None THEN [err |-> "TypeError", obj |-> NoObj]
    ELSE IF keys = {} THEN [err |-> "", obj |-> obj]
    ELSE LET k == CHOOSE k \in keys : TRUE
         IN  IF hasattr(model, k)
             THEN construct(model, setattr(obj, k, data[k]), data, keys \ {k})
             ELSE [err |-> "TypeError", obj |-> NoObj]

Transient == [state |-> "transient", id |-> 0, name |-> None, meta |-> MetaData]

\* Faulty variant: the loop applies nothing.
update_loop_skip(model, obj, data, keys) == obj

\* update's loop: for key, value in data.items(): if hasattr(self.model, key):
\* setattr(obj, key, value).
RECURSIVE update_loop(_, _, _, _)
update_loop(model, obj, data, keys) ==
    IF keys = {} THEN obj
    ELSE LET k == CHOOSE k \in keys : TRUE
         IN  update_loop(model,
                         IF hasattr(model, k) THEN setattr(obj, k, data[k]) ELSE obj,
                         data, keys \ {k})

\* Faulty variant: operator.ne in place of operator.eq.
ne(a, b) == a # b

\* operator.eq
eq(a, b) == a = b

\* Faulty variant: the clauses joined by OR.
where_any(row, kw, keys) ==
    IF keys = {} THEN TRUE
    ELSE \E k \in keys : row[k] = kw[k]

\* The where(*clauses) of _filter: the conjunction of eq(column, value) over
\* kwargs.items(); no clause at all is TRUE.
RECURSIVE where(_, _, _)
where(row, kw, keys) ==
    IF keys = {} THEN TRUE
    ELSE LET k == CHOOSE k \in keys : TRUE
         IN  eq(getattr(row, k), kw[k]) /\ where(row, kw, keys \ {k})

\* Building the statement of _filter raises before the session is reached
\* when getattr(self.model, attr) fails, or when there is no model to select.
filter_error(model, kw) ==
    IF \E k \in Items(kw) : ~hasattr(model, k) THEN "AttributeError"
    ELSE IF model = None THEN "ArgumentError"
    ELSE ""

\* session.execute(select(self.model).where(...)): the committed rows that
\* satisfy the statement, in the store's scan order.
execute(rows, kw) == SelectSeq(rows, LAMBDA r : where(r, kw, Items(kw)))

\* Faulty variant: the last row in place of the first.
first_last(rows) == IF rows = << >> THEN << >> ELSE << rows[Len(rows)] >>

\* Result.scalars().all() and Result.scalars().first()
all(rows) == rows
first(rows) == IF rows = << >> THEN << >> ELSE << Head(rows) >>

\* Faulty variants: the commit ahead of the add; no commit after the delete;
\* the commit ahead of the delete.
_save_commit_first(refresh) ==
    << "commit", "add" >> \o (IF refresh THEN << "refresh" >> ELSE << >>)
_delete_nocommit == << "delete" >>
_delete_commit_first == << "commit", "delete" >>

\* The session operations each helper performs, in order; every one but add
\* is awaited.
_save(refresh) == << "add", "commit" >> \o (IF refresh THEN << "refresh" >> ELSE << >>)
_delete == << "delete", "commit" >>
_filter == << "execute" >>

\* Faulty variant: the exception is swallowed and the helper goes on.
propagate_swallow(c, e) == c

\* An exception raised by the session inside a helper: no helper has a
\* handler, so the coroutine ends with that exception.
propagate(c, e) == [c EXCEPT !.pc = "failed", !.err = e, !.at = "-", !.prog = << >>]

\* ------------------------------------------------------------ the session

\* session.add(obj): a transient instance becomes pending (an INSERT joins
\* the unit of work), a persistent one is already in the session, one that
\* was deleted is refused.
session_add(obj, callid, u) ==
    CASE obj.state = "transient" ->
           [err |-> "", obj |-> [obj EXCEPT !.state = "pending"],
            uow |-> u \cup {[call |-> callid, kind |-> "insert", id |-> 0, name |-> obj.name]}]
      [] obj.state = "detached" ->
           [err |-> "InvalidRequestError", obj |-> obj, uow |-> u]
      [] OTHER -> [err |-> "", obj |-> obj, uow |-> u]

\* Attribute instrumentation: a column of a persistent instance that is set
\* to another value puts an UPDATE of its row into the unit of work.
dirty(u, callid, before, after) ==
    IF before.state = "persistent" /\ after.name # before.name
    THEN u \cup {[call |-> callid, kind |-> "update", id |-> after.id, name |-> after.name]}
    ELSE u

\* session.delete(obj): the instance is marked, a DELETE joins the unit of work.
session_delete(obj, callid, u) ==
    [obj |-> [obj EXCEPT !.state = "deleted"],
     uow |-> u \cup {[call |-> callid, kind |-> "delete", id |-> obj.id, name |-> obj.name]}]

\* The instance agrees with a committed row.
InStore(rows, obj) == \E i \in DOMAIN rows : rows[i].id = obj.id /\ rows[i].name = obj.name

HasRow(rows, id) == \E i \in DOMAIN rows : rows[i].id = id
RowOf(rows, id) == rows[CHOOSE i \in DOMAIN rows : rows[i].id = id]

\* What the flush of a unit of work raises: NOT NULL on name, or an UPDATE
\* that matches no row.
flush_error(rows, u) ==
    IF \E e \in u : e.kind = "insert" /\ e.name = None THEN "IntegrityError"
    ELSE IF \E e \in u : e.kind = "update" /\ ~HasRow(rows, e.id) THEN "StaleDataError"
    ELSE ""

\* The flush: every pending change of the unit of work reaches the store, an
\* INSERT taking the next identity the store assigns.
RECURSIVE flush(_, _)
flush(st, entries) ==
    IF entries = {} THEN st
    ELSE LET e == CHOOSE e \in entries : \A f \in entries : e.call <= f.call
             rows == st.store
             next ==
               CASE e.kind = "insert" ->
                      [store |-> Append(rows, [id |-> st.nextId, name |-> e.name]),
                       nextId |-> st.nextId + 1,
                       assigned |-> st.assigned \cup {<< e.call, st.nextId >>}]
                 [] e.kind = "update" ->
                      [st EXCEPT !.store = [i \in DOMAIN rows |->
                          IF rows[i].id = e.id THEN [rows[i] EXCEPT !.name = e.name]
                          ELSE rows[i]]]
                 [] OTHER ->
                      [st EXCEPT !.store = SelectSeq(rows, LAMBDA r : r.id # e.id)]
         IN  flush(next, entries \ {e})

\* The instance once its unit of work is committed.
committed(obj, callid, assigned) ==
    CASE obj.state = "pending" ->
           [obj EXCEPT !.state = "persistent",
                       !.id = (CHOOSE p \in assigned : p[1] = callid)[2]]
      [] obj.state = "deleted" -> [obj EXCEPT !.state = "detached"]
      [] OTHER -> obj

\* The instance once its unit of work is rolled back: a pending instance is
\* expunged, a deletion is undone, a persistent instance is expired and next
\* read from its row.
rolled_back(obj, rows) ==
    CASE obj.state = "pending" -> [obj EXCEPT !.state = "transient"]
      [] obj.state = "deleted" -> [obj EXCEPT !.state = "persistent"]
      [] obj.state = "persistent" /\ HasRow(rows, obj.id) ->
           [obj EXCEPT !.name = RowOf(rows, obj.id).name]
      [] OTHER -> obj

\* session.refresh(obj): the mapped columns reloaded from the instance's row.
refreshed(obj, rows) ==
    [obj EXCEPT !.id = RowOf(rows, obj.id).id, !.name = RowOf(rows, obj.id).name]

\* The instance a result row gives: the one the caller already holds for
\* that identity, with the row's values, or a new one.
loaded(row, have) ==
    [state |-> "persistent", id |-> row.id, name |-> row.name,
     meta |-> IF have.state = "persistent" /\ have.id = row.id THEN have.meta ELSE MetaData]

\* -------------------------------------------------------------- the state

VARIABLES
    mgr,      \* the manager instance: its construction and self.model
    store,    \* the committed rows, in the store's scan order
    nextId,   \* the identity the store assigns next
    ncalls,   \* manager calls issued so far
    held,     \* per session: the instance the caller holds
    call,     \* per session: the manager call in progress
    uow,      \* per session: the unit of work (pending changes)
    log       \* per session: the operations performed on the session

vars == << mgr, store, nextId, ncalls, held, call, uow, log >>

Unbuilt == [state |-> "unbuilt", model |-> None, passed |-> None,
            default |-> None, optimize |-> FALSE]

Idle == [id |-> 0, op |-> "-", pc |-> "idle", at |-> "-", prog |-> << >>,
         data |-> NoData, kw |-> NoKw, obj |-> NoObj, pre |-> NoObj,
         result |-> << >>, err |-> "", disturbed |-> FALSE]

Init ==
    /\ mgr = Unbuilt
    /\ store = << >>
    /\ nextId = 1
    /\ ncalls = 0
    /\ held = [s \in Sessions |-> NoObj]
    /\ call = [s \in Sessions |-> Idle]
    /\ uow = [s \in Sessions |-> {}]
    /\ log = [s \in Sessions |-> << >>]

\* ------------------------------------------------------------ coroutines

\* An exception raised by the manager's own statements, before any await.
raised(c, e) == [c EXCEPT !.pc = "failed", !.err = e, !.at = "-", !.prog = << >>]

Entry(c, op, res) == [call |-> c.id, op |-> op, res |-> res, flushed |-> {}]

\* The coroutine runs on from its next session operation: add completes at
\* once, any other operation is issued and awaited; with none left the call
\* returns.  st is [call, obj, uow, log].
RECURSIVE Run(_)
Run(st) ==
    IF st.call.prog = << >>
    THEN [st EXCEPT !.call.pc = "done", !.call.at = "-"]
    ELSE LET op == Head(st.call.prog)
             rest == Tail(st.call.prog)
         IN  IF op = "add"
             THEN LET r == session_add(st.obj, st.call.id, st.uow)
                  IN  IF r.err = ""
                      THEN Run([call |-> [st.call EXCEPT !.prog = rest],
                                obj |-> r.obj, uow |-> r.uow,
                                log |-> Append(st.log, Entry(st.call, op, "ok"))])
                      ELSE LET c == propagate(st.call, r.err)
                               nx == [st EXCEPT !.call = c,
                                                !.log = Append(st.log, Entry(st.call, op, r.err))]
                           IN  IF c.pc = "failed" THEN nx
                               ELSE Run([nx EXCEPT !.call.prog = rest])
             ELSE [st EXCEPT !.call.pc = "await", !.call.at = op, !.call.prog = rest,
                             !.log = Append(st.log, Entry(st.call, op, "..."))]

\* The awaited operation has completed with res.
Settle(lg, res, calls) ==
    [lg EXCEPT ![Len(lg)] = [@ EXCEPT !.res = res, !.flushed = calls]]

\* The awaited operation raised e.
Fail(st, e) ==
    LET c == propagate(st.call, e)
        nx == [st EXCEPT !.call = c, !.log = Settle(st.log, e, {})]
    IN  IF c.pc = "failed" THEN nx ELSE Run(nx)

Cur(s) == [call |-> call[s], obj |-> call[s].obj, uow |-> uow[s], log |-> log[s]]

\* The step's effect on session s; update and delete work on the instance
\* the caller holds.
Put(s, st, calls) ==
    /\ call' = [calls EXCEPT ![s] = [st.call EXCEPT !.obj = st.obj]]
    /\ held' = [held EXCEPT ![s] = IF st.call.op \in {"update", "delete"} THEN st.obj ELSE @]
    /\ uow' = [uow EXCEPT ![s] = st.uow]
    /\ log' = [log EXCEPT ![s] = st.log]

NewCall(op, data, kw, obj, prog) ==
    [Idle EXCEPT !.id = ncalls + 1, !.op = op, !.pc = "run", !.prog = prog,
                 !.data = data, !.kw = kw, !.obj = obj, !.pre = obj]

CanCall(s) ==
    /\ mgr.state = "ready"
    /\ call[s].pc = "idle"
    /\ ncalls < MaxCalls

Awaiting(s, op) == call[s].pc = "await" /\ call[s].at = op

\* ----------------------------------------------------------- construction

\* ManagerBase.__init__
Construct(passed, default, optimize) ==
    /\ mgr.state \in {"unbuilt", "failed"}
    /\ LET r == init(passed, default, optimize)
       IN  mgr' = [state |-> IF r.err = "" THEN "constructed" ELSE "failed",
                   model |-> IF r.err = "" THEN r.model ELSE None,
                   passed |-> passed, default |-> default, optimize |-> optimize]
    /\ UNCHANGED << store, nextId, ncalls, held, call, uow, log >>

\* __init__ has returned: its arguments are gone, the instance is in use.
ConstructReturn ==
    /\ mgr.state = "constructed"
    /\ mgr' = [Unbuilt EXCEPT !.state = "ready", !.model = mgr.model]
    /\ UNCHANGED << store, nextId, ncalls, held, call, uow, log >>

\* ------------------------------------------------------------------ calls

\* ManagerBase.create, up to its first await
CreateCall(s, data) ==
    /\ CanCall(s)
    /\ LET r == construct(mgr.model, Transient, data, Items(data))
           c == NewCall("create", data, NoKw, r.obj, _save(TRUE))
       IN  IF r.err # ""
           THEN Put(s, [Cur(s) EXCEPT !.call = raised(c, r.err)], call)
           ELSE Put(s, Run([Cur(s) EXCEPT !.call = c, !.obj = r.obj]), call)
    /\ ncalls' = ncalls + 1
    /\ UNCHANGED << mgr, store, nextId >>

\* ManagerBase.update, up to its first await
UpdateCall(s, data) ==
    /\ CanCall(s)
    /\ held[s] # NoObj
    /\ LET x == update_loop(mgr.model, held[s], data, Items(data))
           c == [NewCall("update", data, NoKw, x, _save(TRUE)) EXCEPT
                    !.pre = held[s], !.disturbed = ~InStore(store, held[s])]
       IN  Put(s, Run([Cur(s) EXCEPT !.call = c, !.obj = x,
                                     !.uow = dirty(uow[s], c.id, held[s], x)]), call)
    /\ ncalls' = ncalls + 1
    /\ UNCHANGED << mgr, store, nextId >>

\* ManagerBase.delete, up to its first await
DeleteCall(s) ==
    /\ CanCall(s)
    /\ held[s] # NoObj
    /\ LET c == NewCall("delete", NoData, NoKw, held[s], _delete)
       IN  Put(s, Run([Cur(s) EXCEPT !.call = c, !.obj = held[s]]), call)
    /\ ncalls' = ncalls + 1
    /\ UNCHANGED << mgr, store, nextId >>

\* get, get_all and filter, up to the await of _filter
Read(s, op, kw) ==
    /\ CanCall(s)
    /\ LET c == NewCall(op, NoData, kw, NoObj, _filter)
           e == filter_error(mgr.model, kw)
       IN  IF e # ""
           THEN Put(s, [Cur(s) EXCEPT !.call = raised(c, e)], call)
           ELSE Put(s, Run([Cur(s) EXCEPT !.call = c]), call)
    /\ ncalls' = ncalls + 1
    /\ UNCHANGED << mgr, store, nextId >>

GetCall(s, kw) == Read(s, "get", kw)
GetAllCall(s) == Read(s, "get_all", NoKw)
FilterCall(s, kw) == Read(s, "filter", kw)

\* ------------------------------------------------- the awaits completing

\* session.execute returns; get takes scalars().first(), the others all().
ExecuteOk(s) ==
    /\ Awaiting(s, "execute")
    /\ LET rows == execute(store, call[s].kw)
           res == IF call[s].op = "get" THEN first(rows) ELSE all(rows)
       IN  Put(s, Run([Cur(s) EXCEPT !.call.result = res,
                                     !.log = Settle(log[s], "ok", {})]), call)
    /\ UNCHANGED << mgr, store, nextId, ncalls >>

ExecuteFail(s) ==
    /\ Awaiting(s, "execute")
    /\ Put(s, Fail(Cur(s), "OperationalError"), call)
    /\ UNCHANGED << mgr, store, nextId, ncalls >>

\* session.commit succeeds: the unit of work is flushed and made durable.
CommitOk(s) ==
    /\ Awaiting(s, "commit")
    /\ flush_error(store, uow[s]) = ""
    /\ LET f == flush([store |-> store, nextId |-> nextId, assigned |-> {}], uow[s])
           touched == {e.id : e \in {e \in uow[s] : e.kind # "insert"}}
           others == [t \in Sessions |->
                        IF t # s /\ call[t].pc = "await" /\ call[t].obj.id \in touched
                        THEN [call[t] EXCEPT !.disturbed = TRUE] ELSE call[t]]
       IN  /\ store' = f.store
           /\ nextId' = f.nextId
           /\ Put(s, Run([call |-> call[s],
                          obj |-> committed(call[s].obj, call[s].id, f.assigned),
                          uow |-> {},
                          log |-> Settle(log[s], "ok", {e.call : e \in uow[s]})]),
                  others)
    /\ UNCHANGED << mgr, ncalls >>

\* session.commit raises e: the transaction is rolled back.
CommitRaise(s, e) ==
    Put(s, Fail([Cur(s) EXCEPT !.obj = rolled_back(call[s].obj, store), !.uow = {}], e), call)

\* The connection fails during the commit.
CommitFail(s) ==
    /\ Awaiting(s, "commit")
    /\ CommitRaise(s, "OperationalError")
    /\ UNCHANGED << mgr, store, nextId, ncalls >>

\* The flush is refused by the store.
CommitReject(s) ==
    /\ Awaiting(s, "commit")
    /\ flush_error(store, uow[s]) # ""
    /\ CommitRaise(s, flush_error(store, uow[s]))
    /\ UNCHANGED << mgr, store, nextId, ncalls >>

RefreshOk(s) ==
    /\ Awaiting(s, "refresh")
    /\ HasRow(store, call[s].obj.id)
    /\ Put(s, Run([Cur(s) EXCEPT !.obj = refreshed(call[s].obj, store),
                                 !.log = Settle(log[s], "ok", {})]), call)
    /\ UNCHANGED << mgr, store, nextId, ncalls >>

RefreshFail(s) ==
    /\ Awaiting(s, "refresh")
    /\ Put(s, Fail(Cur(s), "OperationalError"), call)
    /\ UNCHANGED << mgr, store, nextId, ncalls >>

\* The instance's row is no longer there.
RefreshGone(s) ==
    /\ Awaiting(s, "refresh")
    /\ ~HasRow(store, call[s].obj.id)
    /\ Put(s, Fail(Cur(s), "InvalidRequestError"), call)
    /\ UNCHANGED << mgr, store, nextId, ncalls >>

DeleteOk(s) ==
    /\ Awaiting(s, "delete")
    /\ LET r == session_delete(call[s].obj, call[s].id, uow[s])
       IN  Put(s, Run([Cur(s) EXCEPT !.obj = r.obj, !.uow = r.uow,
                                     !.log = Settle(log[s], "ok", {})]), call)
    /\ UNCHANGED << mgr, store, nextId, ncalls >>

DeleteFail(s) ==
    /\ Awaiting(s, "delete")
    /\ Put(s, Fail(Cur(s), "OperationalError"), call)
    /\ UNCHANGED << mgr, store, nextId, ncalls >>

\* The caller has the call's outcome and keeps the instance create or get
\* returned.
Return(s) ==
    /\ call[s].pc \in {"done", "failed"}
    /\ call' = [call EXCEPT ![s] = Idle]
    /\ held' = [held EXCEPT ![s] =
          IF call[s].pc = "done" /\ call[s].op = "create" THEN call[s].obj
          ELSE IF call[s].pc = "done" /\ call[s].op = "get" /\ call[s].result # << >>
               THEN loaded(call[s].result[1], @)
          ELSE @]
    /\ log' = [log EXCEPT ![s] = << >>]
    /\ UNCHANGED << mgr, store, nextId, ncalls, uow >>

\* One caller, one session: the manager is constructed, then used.
Next ==
    \/ \E p \in Models \cup {None}, d \in Models \cup {None}, o \in BOOLEAN : Construct(p, d, o)
    \/ ConstructReturn
    \/ \E s \in {"s1"} :
         \/ \E d \in FieldMaps : CreateCall(s, d)
         \/ \E d \in FieldMaps : UpdateCall(s, d)
         \/ DeleteCall(s)
         \/ \E kw \in Criteria(nextId - 1) : GetCall(s, kw)
         \/ GetAllCall(s)
         \/ \E kw \in Criteria(nextId - 1) : FilterCall(s, kw)
         \/ ExecuteOk(s) \/ ExecuteFail(s)
         \/ CommitOk(s) \/ CommitFail(s) \/ CommitReject(s)
         \/ RefreshOk(s) \/ RefreshFail(s)
         \/ DeleteOk(s) \/ DeleteFail(s)
         \/ Return(s)

Spec == Init /\ [][Next]_vars

\* Two callers, each with its own session, on one store; the manager is
\* already constructed, the field maps and criteria name columns only.
ColumnMaps == {d \in FieldMaps : d.metadata = NoArg /\ d.bogus = NoArg}
ColumnCriteria(maxid) ==
    {kw \in Criteria(maxid) : kw.bogus = NoArg /\ (kw.id = 0 \/ kw.name = NoArg)}

InitTwo ==
    /\ mgr = [Unbuilt EXCEPT !.state = "ready", !.model = "ModelA"]
    /\ store = << >>
    /\ nextId = 1
    /\ ncalls = 0
    /\ held = [s \in Sessions |-> NoObj]
    /\ call = [s \in Sessions |-> Idle]
    /\ uow = [s \in Sessions |-> {}]
    /\ log = [s \in Sessions |-> << >>]

NextTwo ==
    \E s \in Sessions :
         \/ \E d \in ColumnMaps : CreateCall(s, d)
         \/ \E d \in ColumnMaps : UpdateCall(s, d)
         \/ DeleteCall(s)
         \/ \E kw \in ColumnCriteria(nextId - 1) : GetCall(s, kw)
         \/ ExecuteOk(s)
         \/ CommitOk(s) \/ CommitFail(s) \/ CommitReject(s)
         \/ RefreshOk(s) \/ RefreshGone(s)
         \/ DeleteOk(s)
         \/ Return(s)

SpecTwo == InitTwo /\ [][NextTwo]_vars

\* ------------------------------------------------------------ properties

Done(s, op) == call[s].pc = "done" /\ call[s].op = op
Last(seq) == seq[Len(seq)]
Matches(row, kw) == \A k \in Items(kw) : row[k] = kw[k]
OpsOf(lg) == [i \in DOMAIN lg |-> lg[i].op]
IsPrefix(a, b) == Len(a) <= Len(b) /\ \A i \in DOMAIN a : a[i] = b[i]
\* The field map without its keys that are not columns.
Declared(d) == [k \in DOMAIN d |-> IF k \in Columns THEN d[k] ELSE NoArg]
\* The criteria equal to a field map.
KwOf(d) == [id |-> 0, name |-> d.name, bogus |-> NoArg]
\* The step in which call op of session s returns to its caller.
Completes(s, op) == call[s].pc = "await" /\ call'[s].pc = "done" /\ call'[s].op = op

\* C1: what filter (and get_all) returns is exactly the committed rows that
\* equal the criteria on every key given, each once and no other row; with no
\* criteria it is what get_all returns.
C1_FilterExact ==
    \A s \in Sessions :
        (call[s].pc = "done" /\ call[s].op \in {"filter", "get_all"}) =>
            LET res == call[s].result
                kw == call[s].kw
            IN  /\ \A i \in DOMAIN store :
                       Matches(store[i], kw) <=> \E j \in DOMAIN res : res[j] = store[i]
                /\ \A j \in DOMAIN res : \E i \in DOMAIN store : store[i] = res[j]
                /\ \A j1, j2 \in DOMAIN res : res[j1] = res[j2] => j1 = j2
                /\ Items(kw) = {} => res = all(execute(store, NoKw))

C1_Witness ==
    \E s \in Sessions :
        /\ Done(s, "filter")
        /\ Items(call[s].kw) = {"id", "name"}
        /\ call[s].result # << >>
        /\ Len(call[s].result) < Len(store)

\* C2: get returns the first element of what filter returns for the same
\* criteria on the same store, and None exactly when that is empty; a get
\* that fails does so for the statement or the session, not for want of a row.
C2_GetIsFirstOfFilter ==
    \A s \in Sessions :
        call[s].op = "get" =>
            /\ call[s].pc = "done" =>
                   LET rows == all(execute(store, call[s].kw))
                   IN  /\ rows = << >> <=> call[s].result = << >>
                       /\ rows # << >> => call[s].result = << rows[1] >>
            /\ call[s].pc = "failed" =>
                   \/ filter_error(mgr.model, call[s].kw) = call[s].err
                   \/ log[s] # << >> /\ Last(log[s]).res = call[s].err

C2_Witness ==
    \E s \in Sessions :
        /\ Done(s, "get")
        /\ call[s].result # << >>
        /\ Len(execute(store, call[s].kw)) >= 2

\* C3 as claimed: when update(x, f) returns, x has f's value for every key of
\* f, its other fields are as before, and its committed record agrees.
Applied(c) ==
    /\ c.obj.name = IF c.data.name # NoArg THEN c.data.name ELSE c.pre.name
    /\ c.obj.id = c.pre.id
    /\ c.obj.meta = c.pre.meta

C3_UpdateApplied ==
    [][\A s \in Sessions :
          Completes(s, "update") =>
              Applied(call'[s]) /\ InStore(store', call'[s].obj)]_vars

\* C3 amended: the same for an instance that agreed with its committed record
\* when the call began, provided no other call committed a change to that
\* record while the call ran; in every case x agrees with its committed record
\* as the call returns.
C3_UpdateAppliedUndisturbed ==
    [][\A s \in Sessions :
          Completes(s, "update") =>
              /\ ~call'[s].disturbed => Applied(call'[s])
              /\ InStore(store', call'[s].obj)]_vars

C3_Witness ==
    \E s \in Sessions :
        /\ Done(s, "update")
        /\ ~call[s].disturbed
        /\ call[s].data.name \notin {NoArg, call[s].pre.name}
        /\ call[s].obj.name = call[s].data.name
        /\ InStore(store, call[s].obj)

\* C4: an update whose field map holds keys that are not declared fields
\* does not fail for them and leaves the instance as the update with only
\* the declared fields of the map leaves it.
C4_UndeclaredKeysIgnored ==
    \A s \in Sessions :
        call[s].op = "update" =>
            /\ call[s].pc = "done" =>
                   LET f == Declared(call[s].data)
                   IN  call[s].obj = update_loop(mgr.model, call[s].pre, f, Items(f))
            /\ call[s].pc = "failed" => call[s].err \notin {"TypeError", "AttributeError"}

\* C5: once delete(x) has succeeded the record of x is gone from the store
\* and stays gone, no get or filter executed from then on returns an
\* instance with x's identity, and the instance delete returned has the
\* field values it had.
C5_DeletedStaysGone ==
    /\ [](\A s \in Sessions :
              Done(s, "delete") =>
                  /\ ~HasRow(store, call[s].obj.id)
                  /\ call[s].obj.state = "detached"
                  /\ call[s].obj.id = call[s].pre.id
                  /\ call[s].obj.name = call[s].pre.name
                  /\ call[s].obj.meta = call[s].pre.meta)
    /\ [](\A t \in Sessions : held[t].state = "detached" => ~HasRow(store, held[t].id))
    /\ [][/\ \A i \in 1..(nextId - 1) : ~HasRow(store, i) => ~HasRow(store', i)
          /\ \A s, t \in Sessions :
                (held[t].state = "detached" /\ Awaiting(s, "execute") /\ call'[s].pc = "done")
                    => \A j \in DOMAIN call'[s].result :
                           call'[s].result[j].id # held[t].id]_vars

C5_Witness ==
    \E s, t \in Sessions :
        /\ held[t].state = "detached"
        /\ Done(s, "get")
        /\ call[s].kw.id = held[t].id
        /\ call[s].result = << >>

\* C6 as claimed: the instance create(f) returns has f's values and an
\* identity, and get with criteria equal to f returns that identity.
C6_CreateThenGet ==
    \A s \in Sessions :
        Done(s, "create") =>
            /\ call[s].obj.name = call[s].data.name
            /\ call[s].obj.id # 0
            /\ LET got == first(execute(store, KwOf(call[s].data)))
               IN  got # << >> /\ got[1].id = call[s].obj.id

\* C6 amended: the instance create(f) returns has an identity, and f's
\* values unless another call committed a change to its record before the
\* refresh; as of the call's commit, filter with criteria equal to f holds an
\* instance with that identity, and get returns it when no other committed
\* instance matches f.
C6_CreateCommitted ==
    /\ [](\A s \in Sessions :
              Done(s, "create") =>
                  /\ call[s].obj.id # 0
                  /\ call[s].obj.state = "persistent"
                  /\ ~call[s].disturbed => call[s].obj.name = call[s].data.name)
    /\ [][\A s \in Sessions :
              (Awaiting(s, "commit") /\ call[s].op = "create" /\ call'[s].at = "refresh") =>
                  LET rows == all(execute(store', KwOf(call[s].data)))
                      id == call'[s].obj.id
                  IN  /\ id # 0
                      /\ \E j \in DOMAIN rows : rows[j].id = id
                      /\ Len(rows) = 1 => first(rows)[1].id = id]_vars

C6_Witness ==
    \E s \in Sessions :
        /\ Done(s, "create")
        /\ ~call[s].disturbed
        /\ call[s].obj.name = call[s].data.name
        /\ Len(execute(store, KwOf(call[s].data))) >= 2
        /\ first(execute(store, KwOf(call[s].data)))[1].id # call[s].obj.id

\* C7: a commit makes durable the pending changes of the call that issued it
\* and of no other; a mutating call that returns has committed exactly once,
\* and no call commits twice; pending changes exist only while their own call
\* is awaiting the session.
C7_OneCommitPerCall ==
    \A s \in Sessions :
        LET commits == {i \in DOMAIN log[s] : log[s][i].op = "commit"}
        IN  /\ \A i \in commits : log[s][i].flushed \subseteq {log[s][i].call}
            /\ Cardinality(commits) <= 1
            /\ (call[s].pc = "done" /\ call[s].op \in {"create", "update", "delete"}) =>
                   \E i \in commits : log[s][i].res = "ok"
            /\ \A e \in uow[s] : e.call = call[s].id /\ call[s].pc = "await"

C7_Witness ==
    \E s, t \in Sessions :
        /\ s # t
        /\ uow[t] # {}
        /\ \E i \in DOMAIN log[s] :
               /\ log[s][i].op = "commit"
               /\ log[s][i].res = "ok"
               /\ log[s][i].flushed = {call[s].id}

\* C8: an operation of the session that fails ends the call with the very
\* exception the session raised, and nothing more is issued on the session:
\* no operation twice, none after the failed one.
C8_FailurePropagates ==
    \A s \in Sessions :
        /\ \A i \in 1..(Len(log[s]) - 1) : log[s][i].res = "ok"
        /\ \A i, j \in DOMAIN log[s] : log[s][i].op = log[s][j].op => i = j
        /\ \A i \in DOMAIN log[s] :
               log[s][i].op \in {"add", "commit", "refresh", "delete", "execute"}
        /\ (log[s] # << >> /\ Last(log[s]).res \notin {"ok", "..."}) =>
               call[s].pc = "failed" /\ call[s].err = Last(log[s]).res

C8_Witness ==
    \E s \in Sessions :
        /\ call[s].pc = "failed"
        /\ Len(log[s]) = 2
        /\ log[s][2].op = "commit"
        /\ log[s][2].res = "OperationalError"
        /\ call[s].err = "OperationalError"

\* C9: no manager instance exists without a definition: construction with
\* none passed and none predefined fails; a definition passed is the one bound.
C9_DefinitionAlwaysBound ==
    /\ mgr.state \in {"constructed", "ready"} => mgr.model # None
    /\ (mgr.state = "constructed" /\ mgr.passed # None) => mgr.model = mgr.passed
    /\ (mgr.state = "constructed" /\ mgr.passed = None) => mgr.model = mgr.default

\* C10: on its session a create or update performs add, commit, refresh in
\* that order and a delete performs delete, commit, each operation issued
\* once the one before has completed, the refresh never skipped, with no
\* operation of another call among them.
C10_OrderedOps ==
    \A s \in Sessions :
        LET c == call[s]
            ops == OpsOf(log[s])
        IN  /\ \A i \in DOMAIN log[s] : log[s][i].call = c.id
            /\ c.op \in {"create", "update"} => IsPrefix(ops, << "add", "commit", "refresh" >>)
            /\ c.op = "delete" => IsPrefix(ops, << "delete", "commit" >>)
            /\ \A i \in 2..Len(log[s]) : log[s][i - 1].res = "ok"
            /\ (c.pc = "done" /\ c.op \in {"create", "update"}) =>
                   ops = << "add", "commit", "refresh" >>
            /\ (c.pc = "done" /\ c.op = "delete") => ops = << "delete", "commit" >>
            /\ c.pc = "idle" => log[s] = << >>

C10_Witness ==
    \E s, t \in Sessions :
        /\ s # t
        /\ Done(s, "update")
        /\ Len(log[s]) = 3
        /\ call[t].pc = "await"
        /\ call[t].at = "commit"

=============================================================================
